---- MODULE Spec2Model ----
(***************************************************************************)
(* Model of depthcharge-tools: board identification                        *)
(* (depthchargectl.board), the physical-disk walk (utils.find_disks) and   *)
(* partition naming (utils.Partition).                                     *)
(*                                                                         *)
(* Python strings that are inspected character by character are sequences *)
(* of one-character strings.  Python's None is the value None below.       *)
(***************************************************************************)
EXTENDS Integers, Sequences, FiniteSets, TLC

\* ------------------------------------------------------------------ bounds
\* Largest number of configuration sections that carry board data.
MaxProfiles == 2

\* Number of block devices in the registry.
NumDevs == 2

\* Largest number of name pieces in a disk name.
MaxTokens == 3

\* Largest partition number.
MaxPartNo == 12

\* Largest number of kernel partitions found.
MaxKernParts == 3

\* Largest number of hex digits in a raw attribute value.
MaxHexDigits == 3

\* Largest image size and size limit, in bytes.
MaxSize == 2

\* ------------------------------------------------------------- Python None
None == <<"None">>

\* ---------------------------------------------------------------------
\* Board identification: depthchargectl.board
\* ---------------------------------------------------------------------
VARIABLES
    sections,      \* config sections in file order: records codename/hwid_match/dt_compatible
    cfgBoard,      \* the "board" value of the depthchargectl config section, or None
    argCodename,   \* the --board argument, or None
    hwid,          \* what cros_hwid() returns
    compatibles,   \* what dt_compatibles() returns
    bpc,           \* "start" before board() runs, "done" after
    bresult        \* outcome of board(): returned section or raised error

boardVars == <<sections, cfgBoard, argCodename, hwid, compatibles, bpc, bresult>>

\* Codenames a section may declare (None: the section has no "codename" key).
Codenames == {<<"a">>, <<"b">>}

\* (hwid-match, dt-compatible) combinations the sections are drawn from:
\* the pattern is absent, does not compile ("("), or is a literal with or
\* without the end anchor; the compatible string is absent, "x" or "y".
SectionBodies ==
    { <<None, None>>, <<None, <<"x">> >>, <<None, <<"y">> >>,
      << <<"(">>, <<"x">> >>, << <<"G">>, None >>, << <<"G">>, <<"y">> >>,
      << <<"G", "$">>, <<"x">> >>, << <<"1">>, <<"y">> >> }

SectionChoices ==
    { [codename |-> c, hwid_match |-> b[1], dt_compatible |-> b[2]] :
        c \in Codenames \cup {None}, b \in SectionBodies }

SeqsUpTo(S, n) == UNION { [1..k -> S] : k \in 0..n }

\* Hardware IDs (None: no hardware ID could be read).
Hwids == {None, <<"G">>, <<"G", "1">>, <<"Z">>}

\* Device-tree compatible lists, most specific first.
CompatLists == { <<>>, << <<"x">> >>, << <<"x">>, <<"y">> >>, << <<"y">>, <<"x">> >>,
                 << <<"z">> >> }

ArgCodenames == {None, <<"a">>, <<"c">>}
CfgBoards == {None, <<"b">>, <<"c">>}

\* --- boards = {section.get("codename"): section for ... if "codename" in section}
\* A Python dict as a sequence of <<key, value>> items in insertion order:
\* a repeated key keeps its position and takes the later value.
DictHas(d, k) == \E i \in 1..Len(d) : d[i][1] = k

DictGet(d, k) == d[CHOOSE i \in 1..Len(d) : d[i][1] = k][2]

DictSet(d, k, v) ==
    IF DictHas(d, k)
    THEN [i \in 1..Len(d) |-> IF d[i][1] = k THEN <<k, v>> ELSE d[i]]
    ELSE Append(d, <<k, v>>)

RECURSIVE BoardsFrom(_, _)
BoardsFrom(secs, d) ==
    IF secs = <<>> THEN d
    ELSE LET s == Head(secs) IN
         BoardsFrom(Tail(secs),
                    IF s.codename # None THEN DictSet(d, s.codename, s) ELSE d)

boards(secs) == BoardsFrom(secs, <<>>)

\* --- re.match(pattern, string): match anchored at the start of the string.
\* Supported syntax: literal characters, ".", a leading "^", a trailing "$".
PatternCompiles(p) == \A i \in 1..Len(p) : p[i] # "("

RECURSIVE MatchHere(_, _)
MatchHere(p, s) ==
    IF p = <<>> THEN TRUE
    ELSE IF p = <<"$">> THEN s = <<>>
    ELSE IF s = <<>> THEN FALSE
    ELSE (Head(p) = "." \/ Head(p) = Head(s)) /\ MatchHere(Tail(p), Tail(s))

StripCaret(p) == IF p # <<>> /\ Head(p) = "^" THEN Tail(p) ELSE p

\* Variant: re.fullmatch in place of re.match.
ReFullMatch(p, s) == MatchHere(Append(StripCaret(p), "$"), s)

ReMatch(p, s) == MatchHere(StripCaret(p), s)

\* hwid_match(item): any exception (None pattern, None hwid, re.error) is False.
hwid_match(item, hw) ==
    LET pat == item[2].hwid_match IN
    IF pat = None \/ hw = None THEN FALSE
    ELSE IF ~PatternCompiles(pat) THEN FALSE
    ELSE ReMatch(pat, hw)

\* tuple(filter(hwid_match, boards.items()))
RECURSIVE Filter(_, _)
Filter(items, hw) ==
    IF items = <<>> THEN <<>>
    ELSE IF hwid_match(Head(items), hw)
         THEN <<Head(items)>> \o Filter(Tail(items), hw)
         ELSE Filter(Tail(items), hw)

\* list.index(x): position (from 0) of the first occurrence, -1 for ValueError here.
ListIndex(l, x) ==
    IF \E i \in 1..Len(l) : l[i] = x
    THEN (CHOOSE i \in 1..Len(l) : l[i] = x /\ \A j \in 1..(i - 1) : l[j] # x) - 1
    ELSE -1

\* float("inf") as a key larger than every list index of the model.
Inf == 1000000

\* Variant: the keys of "no profile" and "string not in the list" exchanged.
compat_preference_swapped(item, compats) ==
    IF item = None THEN Inf
    ELSE LET compat == item[2].dt_compatible
             idx == ListIndex(compats, compat)
         IN IF idx = -1 THEN Len(compats) ELSE idx

\* compat_preference(item) with item None or a (codename, section) pair.
compat_preference(item, compats) ==
    IF item = None THEN Len(compats)
    ELSE LET compat == item[2].dt_compatible
             idx == ListIndex(compats, compat)
         IN IF idx = -1 THEN Inf ELSE idx

\* Variant: the last element carrying the smallest key.
MinByKeyLast(seq, compats) ==
    seq[CHOOSE i \in 1..Len(seq) :
            /\ \A j \in 1..Len(seq) :
                  compat_preference(seq[i], compats) <= compat_preference(seq[j], compats)
            /\ \A j \in (i + 1)..Len(seq) :
                  compat_preference(seq[j], compats) > compat_preference(seq[i], compats)]

\* min(seq, key=...): the first element carrying the smallest key.
MinByKey(seq, compats) ==
    seq[CHOOSE i \in 1..Len(seq) :
            /\ \A j \in 1..Len(seq) :
                  compat_preference(seq[i], compats) <= compat_preference(seq[j], compats)
            /\ \A j \in 1..(i - 1) :
                  compat_preference(seq[j], compats) > compat_preference(seq[i], compats)]

Returned(section) == [status |-> "returned", profile |-> section]
UnknownBoard == [status |-> "UnknownBoard", profile |-> None]
BoardNotDetected == [status |-> "BoardNotDetected", profile |-> None]
NotCalled == [status |-> "none", profile |-> None]

\* Auto-detection: the part of board() after the explicit codename lookup.
detect(bs, hw, compats) ==
    LET matches == Filter(bs, hw) IN
    IF matches # <<>> THEN Returned(DictGet(bs, matches[1][1]))
    ELSE LET match == MinByKey(<<None>> \o bs, compats) IN
         IF match # None THEN Returned(DictGet(bs, match[1]))
         ELSE BoardNotDetected

\* Variant: an unknown codename falls through to auto-detection.
board_fallthrough(secs, cfg, arg, hw, compats) ==
    LET bs == boards(secs)
        codename == IF arg = None THEN cfg ELSE arg
    IN IF DictHas(bs, codename) THEN Returned(DictGet(bs, codename))
       ELSE detect(bs, hw, compats)

\* Variant: the configured "board" value is not consulted.
board_argument_only(secs, cfg, arg, hw, compats) ==
    LET bs == boards(secs)
        codename == arg
    IN IF DictHas(bs, codename) THEN Returned(DictGet(bs, codename))
       ELSE IF codename # None THEN UnknownBoard
       ELSE detect(bs, hw, compats)

\* board(self, codename=None)
board(secs, cfg, arg, hw, compats) ==
    LET bs == boards(secs)
        codename == IF arg = None THEN cfg ELSE arg
    IN IF DictHas(bs, codename) THEN Returned(DictGet(bs, codename))
       ELSE IF codename # None THEN UnknownBoard
       ELSE detect(bs, hw, compats)

BoardInit ==
    /\ sections \in SeqsUpTo(SectionChoices, MaxProfiles)
    /\ cfgBoard \in CfgBoards
    /\ argCodename \in ArgCodenames
    /\ hwid \in Hwids
    /\ compatibles \in CompatLists
    /\ bpc = "start"
    /\ bresult = NotCalled

Board ==
    /\ bpc = "start"
    /\ bresult' = board(sections, cfgBoard, argCodename, hwid, compatibles)
    /\ bpc' = "done"
    /\ UNCHANGED <<sections, cfgBoard, argCodename, hwid, compatibles>>

\* ---------------------------------------------------------------------
\* Physical disks behind a set of devices: utils.find_disks
\* ---------------------------------------------------------------------
VARIABLES
    registry,     \* /sys/class/block: per device its sysfs place, dm/name and slaves
    devNodes,     \* names for which /dev/<name> is a block device
    args,         \* the references find_disks was called with
    parents,      \* the parents map built from the registry
    disks,        \* working set of the walk
    phys_disks,   \* parent set of the working set
    dpc,          \* "start", "loop", "filter", "done"
    dret,         \* what find_disks returned
    ncalls,       \* number of find_disks calls started
    prevArgs,     \* arguments and result of the call made before the current one
    prevRet

diskVars == <<registry, devNodes, args, parents, disks, phys_disks, dpc, dret,
              ncalls, prevArgs, prevRet>>

\* Block devices are named 1..NumDevs.
Devs == 1..NumDevs

\* A None reference among the arguments.
NoneRef == 0

\* The text of device d's dm/name file: not the name of any block device.
DmName(d) == 0 - d

\* Where dev.resolve() lands for a registry entry:
\*   InBlockDir  - the device directory sits in a directory named "block";
\*   Elsewhere   - neither the parent nor the grandparent is named "block";
\*   p in Devs   - the device directory sits in the directory of disk p,
\*                 which itself sits in a directory named "block".
InBlockDir == 0
Elsewhere == -1

DevEntries(d) ==
    [ sysfs : {InBlockDir, Elsewhere} \cup (Devs \ {d}),
      dm : BOOLEAN,
      slaves : {{}} \cup { {s} : s \in Devs \ {d} } ]

Registries ==
    { r \in [Devs -> UNION { DevEntries(d) : d \in Devs }] :
        \A d \in Devs :
            /\ r[d] \in DevEntries(d)
            /\ r[d].sysfs \in Devs => r[r[d].sysfs].sysfs = InBlockDir
            /\ r[d].dm => r[d].sysfs = InBlockDir }

\* Lines 27-44: the parents map, a defaultdict(set) holding a key for every
\* name that received an entry.
ParentEntries(r, k) ==
    {d \in Devs : r[d].dm /\ DmName(d) = k}
    \cup {d \in Devs : k \in r[d].slaves}
    \cup (IF k \in Devs /\ r[k].sysfs \in Devs THEN {r[k].sysfs}
          ELSE IF k \in Devs /\ r[k].sysfs = InBlockDir THEN {k}
          ELSE {})

BuildParents(r) ==
    LET keys == { k \in Devs \cup {DmName(d) : d \in Devs} : ParentEntries(r, k) # {} }
    IN [k \in keys |-> ParentEntries(r, k)]

\* parents.get(d, set())
ParentsGet(ps, d) == IF d \in DOMAIN ps THEN ps[d] ELSE {}

\* Variant: a call without references walks from no device at all.
DefaultArgsEmpty(ps, as) == as

\* Lines 46-47: without references, start from every key of the parents map.
DefaultArgs(ps, as) == IF Cardinality(as) = 0 THEN DOMAIN ps ELSE as

\* Lines 49-53: names of the references, None dropped.
StartDisks(as) == { a \in as : a # NoneRef }

\* Reference sets of a call: none, only None, or some block devices.
ArgSets == {{}, {NoneRef}} \cup (SUBSET Devs)

DisksInit ==
    /\ registry \in Registries
    /\ devNodes \in {Devs, Devs \ {NumDevs}}
    /\ args = {}
    /\ parents = <<>>
    /\ disks = {}
    /\ phys_disks = {}
    /\ dpc = "start"
    /\ dret = {}
    /\ ncalls = 0
    /\ prevArgs = {}
    /\ prevRet = {}

\* find_disks(*as), lines 24-55.
FindDisks(as) ==
    /\ dpc = "start"
    /\ args' = as
    /\ parents' = BuildParents(registry)
    /\ disks' = StartDisks(DefaultArgs(BuildParents(registry), as))
    /\ phys_disks' = {}
    /\ dpc' = "loop"
    /\ ncalls' = 1
    /\ UNCHANGED <<registry, devNodes, dret, prevArgs, prevRet>>

\* One pass of the while loop, lines 56-61.
WalkStep ==
    /\ dpc = "loop"
    /\ disks # {}
    /\ LET updated == phys_disks \cup UNION { ParentsGet(parents, d) : d \in disks }
       IN IF disks = updated
          THEN /\ phys_disks' = updated
               /\ dpc' = "filter"
               /\ UNCHANGED disks
          ELSE /\ disks' = updated
               /\ phys_disks' = {}
               /\ UNCHANGED dpc
    /\ UNCHANGED <<registry, devNodes, args, parents, dret, ncalls, prevArgs, prevRet>>

\* The while condition fails, line 56.
WalkEmpty ==
    /\ dpc = "loop"
    /\ disks = {}
    /\ dpc' = "filter"
    /\ UNCHANGED <<registry, devNodes, args, parents, disks, phys_disks, dret,
                   ncalls, prevArgs, prevRet>>

\* Lines 63-69.
ReturnDisks ==
    /\ dpc = "filter"
    /\ dret' = { d \in phys_disks : d \in devNodes }
    /\ dpc' = "done"
    /\ UNCHANGED <<registry, devNodes, args, parents, disks, phys_disks,
                   ncalls, prevArgs, prevRet>>

\* A second call on the same system, after a call without references.
FindDisksAgain(as) ==
    /\ dpc = "done"
    /\ ncalls = 1
    /\ args = {}
    /\ as # {}
    /\ ncalls' = 2
    /\ prevArgs' = args
    /\ prevRet' = dret
    /\ args' = as
    /\ parents' = BuildParents(registry)
    /\ disks' = StartDisks(DefaultArgs(BuildParents(registry), as))
    /\ phys_disks' = {}
    /\ dpc' = "loop"
    /\ dret' = {}
    /\ UNCHANGED <<registry, devNodes>>

\* ---------------------------------------------------------------------
\* Partition device names: utils.Partition
\* ---------------------------------------------------------------------
VARIABLES
    pdisk,     \* disk name given to from_parts
    ppartno,   \* partition number given to from_parts, or NoPartNo
    pname,     \* name of the Partition object
    ppc,       \* "start", "built" (Partition constructed), "read" (devparts read)
    pparts     \* outcome of devparts

partVars == <<pdisk, ppartno, pname, ppc, pparts>>

\* partno=None as an integer argument.
NoPartNo == -1

Digits == {"0", "1", "2", "3", "4", "5", "6", "7", "8", "9"}

\* str.isnumeric() on one character.
IsNumeric(c) == c \in Digits

DigitChar(d) == <<"0", "1", "2", "3", "4", "5", "6", "7", "8", "9">>[d + 1]

\* "{}".format(n) for a natural number n.
RECURSIVE FormatInt(_)
FormatInt(n) ==
    IF n < 10 THEN <<DigitChar(n)>>
    ELSE FormatInt(n \div 10) \o <<DigitChar(n % 10)>>

\* Pieces the device names of the model are put together from.
NameTokens ==
    { <<"m", "m", "c", "b", "l", "k">>, <<"n", "v", "m", "e", "0", "n">>,
      <<"l", "o", "o", "p">>, <<"d", "m", "-">>, <<"s", "d", "a">>,
      <<"p">>, <<"0">>, <<"1">> }

RECURSIVE Flatten(_)
Flatten(ts) == IF ts = <<>> THEN <<>> ELSE Head(ts) \o Flatten(Tail(ts))

DiskNames == { Flatten(ts) : ts \in UNION { [1..k -> NameTokens] : k \in 1..MaxTokens } }

PartNos == {NoPartNo} \cup (1..MaxPartNo)

\* sub in name
Contains(name, sub) ==
    \E i \in 1..(Len(name) - Len(sub) + 1) : SubSeq(name, i, i + Len(sub) - 1) = sub

EndsWithDigit(name) == name # <<>> /\ IsNumeric(name[Len(name)])

\* Partition.from_parts(disk, partno), lines 158-165.
from_parts(disk, partno) ==
    IF partno = NoPartNo THEN disk
    ELSE IF IsNumeric(disk[Len(disk)])
         THEN disk \o <<"p">> \o FormatInt(partno)
         ELSE disk \o FormatInt(partno)

\* The substrings of line 177.
Markers ==
    { <<"b", "o", "o", "t">>, <<"r", "p", "m", "b">>, <<"d", "m", "-">>,
      <<"l", "o", "o", "p">>, <<"m", "t", "d">> }

\* re.findall("mmcblk[0-9]$", name)
IsMmcDisk(name) ==
    /\ Len(name) >= 7
    /\ SubSeq(name, Len(name) - 6, Len(name) - 1) = <<"m", "m", "c", "b", "l", "k">>
    /\ IsNumeric(name[Len(name)])

\* re.findall("nvme[0-9]n[0-9]$", name)
IsNvmeDisk(name) ==
    /\ Len(name) >= 7
    /\ SubSeq(name, Len(name) - 6, Len(name) - 3) = <<"n", "v", "m", "e">>
    /\ IsNumeric(name[Len(name) - 2])
    /\ name[Len(name) - 1] = "n"
    /\ IsNumeric(name[Len(name)])

\* re.findall("[0-9]p[0-9]", name)
HasDigitPDigit(name) ==
    \E i \in 1..(Len(name) - 2) :
        IsNumeric(name[i]) /\ name[i + 1] = "p" /\ IsNumeric(name[i + 2])

\* name.rsplit("p", 1) for a name that contains "p".
RSplitP(name) ==
    LET k == CHOOSE i \in 1..Len(name) :
                 name[i] = "p" /\ \A j \in (i + 1)..Len(name) : name[j] # "p"
    IN <<SubSeq(name, 1, k - 1), SubSeq(name, k + 1, Len(name))>>

Parts(disk, partno) == [raised |-> "", disk |-> disk, partno |-> partno]
PartsRaised(error) == [raised |-> error, disk |-> None, partno |-> None]

\* Variant: only the last digit is split off.
SplitLastDigit(name) ==
    IF \A i \in 1..Len(name) : IsNumeric(name[i])
    THEN PartsRaised("AttributeError")
    ELSE Parts(SubSeq(name, 1, Len(name) - 1), SubSeq(name, Len(name), Len(name)))

\* re.match("(.*[^0-9])([0-9]+)$", name).groups() for a name ending in a
\* digit; re.match returns None when the name has no non-digit character.
SplitTrailingDigits(name) ==
    IF \A i \in 1..Len(name) : IsNumeric(name[i])
    THEN PartsRaised("AttributeError")
    ELSE LET k == CHOOSE i \in 1..Len(name) :
                      ~IsNumeric(name[i]) /\ \A j \in (i + 1)..Len(name) : IsNumeric(name[j])
         IN Parts(SubSeq(name, 1, k), SubSeq(name, k + 1, Len(name)))

\* Partition.devparts, lines 175-190.
devparts(name) ==
    IF \E s \in Markers : Contains(name, s) THEN Parts(name, None)
    ELSE IF IsMmcDisk(name) THEN Parts(name, None)
    ELSE IF IsNvmeDisk(name) THEN Parts(name, None)
    ELSE IF HasDigitPDigit(name) THEN Parts(RSplitP(name)[1], RSplitP(name)[2])
    ELSE IF EndsWithDigit(name) THEN SplitTrailingDigits(name)
    ELSE Parts(name, None)

PartInit ==
    /\ pdisk \in DiskNames
    /\ ppartno \in PartNos
    /\ pname = <<>>
    /\ ppc = "start"
    /\ pparts = Parts(None, None)

\* Partition.from_parts(pdisk, ppartno)
FromParts ==
    /\ ppc = "start"
    /\ pname' = from_parts(pdisk, ppartno)
    /\ ppc' = "built"
    /\ UNCHANGED <<pdisk, ppartno, pparts>>

\* Reading .disk and .partno, both computed from .devparts.
Devparts ==
    /\ ppc = "built"
    /\ pparts' = devparts(pname)
    /\ ppc' = "read"
    /\ UNCHANGED <<pdisk, ppartno, pname>>

\* ---------------------------------------------------------------------
\* Kernel partitions and their attributes: utils.depthcharge_partitions
\* ---------------------------------------------------------------------
VARIABLES
    kfound,    \* device names printed by "cgpt find -t kernel", in order
    kshow,     \* per found partition, what "cgpt show -A" does: exit code and output
    kidx,      \* position of the for loop in the found partitions
    koutput,   \* the output list
    kpc        \* "start", "loop", "done", or "raised"

kernVars == <<kfound, kshow, kidx, koutput, kpc>>

HexDigits == <<"0", "1", "2", "3", "4", "5", "6", "7", "8", "9",
               "a", "b", "c", "d", "e", "f">>

IsHexDigit(c) == \E v \in 1..16 : HexDigits[v] = c

HexDigitValue(c) == (CHOOSE v \in 1..16 : HexDigits[v] = c) - 1

\* int(text, 16) accepts the text.
IsHex(text) == text # <<>> /\ \A i \in 1..Len(text) : IsHexDigit(text[i])

\* int(text, 16) for an accepted text.
RECURSIVE HexValue(_)
HexValue(text) ==
    IF text = <<>> THEN 0
    ELSE 16 * HexValue(SubSeq(text, 1, Len(text) - 1)) + HexDigitValue(text[Len(text)])

\* a >> n
RECURSIVE ShiftRight(_, _)
ShiftRight(a, n) == IF n = 0 THEN a ELSE ShiftRight(a \div 2, n - 1)

\* a & b
RECURSIVE BitAnd(_, _)
BitAnd(a, b) ==
    IF a = 0 \/ b = 0 THEN 0
    ELSE 2 * BitAnd(a \div 2, b \div 2) + (IF a % 2 = 1 /\ b % 2 = 1 THEN 1 ELSE 0)

\* Line 97.
priority_of(attr) == BitAnd(attr, 15)

\* Variant: the tries field read one bit too low.
tries_shift3(attr) == BitAnd(ShiftRight(attr, 3), 15)

\* Line 98.
tries_of(attr) == BitAnd(ShiftRight(attr, 4), 15)

\* Variant: the successful flag read from bit 9.
successful_bit9(attr) == BitAnd(ShiftRight(attr, 9), 1)

\* Line 99.
successful_of(attr) == BitAnd(ShiftRight(attr, 8), 1)

\* Outcome of one "cgpt show -A -i partno disk".
ShowResult(rc, stdout) == [returncode |-> rc, stdout |-> stdout]

\* The attribute read fails: non-zero exit, or output that is no hex integer.
ReadFails(show) == show.returncode # 0 \/ ~IsHex(show.stdout)

\* Names "cgpt find" reports.
KernelPartNames ==
    { <<"s", "d", "a", "2">>, <<"s", "d", "a", "4">>,
      <<"m", "m", "c", "b", "l", "k", "0", "p", "1">> }

\* Outcomes of the attribute reader used with several partitions.
ShowSamples ==
    { ShowResult(0, <<"f", "1">>), ShowResult(0, <<"2", "5">>),
      ShowResult(0, <<"1", "f", "f">>), ShowResult(1, <<>>), ShowResult(0, <<"z">>) }

\* Every hexadecimal output of up to MaxHexDigits digits.
HexTexts == UNION { [1..k -> {HexDigits[v] : v \in 1..16}] : k \in 1..MaxHexDigits }

\* Several kernel partitions, attribute reads that succeed or fail.
KernInit ==
    /\ kfound \in SeqsUpTo(KernelPartNames, MaxKernParts)
    /\ kshow \in [1..Len(kfound) -> ShowSamples]
    /\ kidx = 0
    /\ koutput = <<>>
    /\ kpc = "start"

\* One kernel partition, every attribute value of the bounds.
AttrInit ==
    /\ kfound \in [1..1 -> KernelPartNames]
    /\ kshow \in [1..1 -> { ShowResult(0, t) : t \in HexTexts }]
    /\ kidx = 0
    /\ koutput = <<>>
    /\ kpc = "start"

\* Lines 90-93: the search and the empty output list.
FindKernelParts ==
    /\ kpc = "start"
    /\ kidx' = 1
    /\ koutput' = <<>>
    /\ kpc' = "loop"
    /\ UNCHANGED <<kfound, kshow>>

\* Lines 94-100: one pass of the for loop.  part.partno and part.disk come
\* from devparts; a failed read leaves int() without a hex text and the
\* exception leaves depthcharge_partitions.
ReadAttribute ==
    /\ kpc = "loop"
    /\ kidx <= Len(kfound)
    /\ LET part == kfound[kidx]
           proc == kshow[kidx]
       IN IF devparts(part).raised # "" \/ ReadFails(proc)
          THEN /\ kpc' = "raised"
               /\ UNCHANGED <<kidx, koutput>>
          ELSE LET attr == HexValue(proc.stdout) IN
               /\ koutput' = Append(koutput,
                      <<part, priority_of(attr), tries_of(attr), successful_of(attr)>>)
               /\ kidx' = kidx + 1
               /\ UNCHANGED kpc
    /\ UNCHANGED <<kfound, kshow>>

\* Line 102.
ReturnKernelParts ==
    /\ kpc = "loop"
    /\ kidx > Len(kfound)
    /\ kpc' = "done"
    /\ UNCHANGED <<kfound, kshow, kidx, koutput>>

\* encode(raw, attrs) of the attribute codec: the three fields replace bits
\* 0-8 of raw, every higher bit is kept.
encode(raw, prio, tries, successful) ==
    (raw - (raw % 512)) + prio + 16 * tries + 256 * successful

KernIdle ==
    /\ kfound = <<>>
    /\ kshow = <<>>
    /\ kidx = 0
    /\ koutput = <<>>
    /\ kpc = "idle"

\* ---------------------------------------------------------------------
\* depthchargectl check: _check.py
\* ---------------------------------------------------------------------
VARIABLES
    cimage,    \* the image file given to check
    ccfg,      \* board limits and configured key of the check
    cresult,   \* what check raised and the external tools it invoked
    cpc        \* "start" or "done"

checkVars == <<cimage, ccfg, cresult, cpc>>

\* Compression types the build accepts (_build.py line 250).
CompressTypes == {"none", "lz4", "lzma"}

\* What the external tools would find wrong with an image.
ImageFaults == {"verify", "signature", "format", "dtb"}

\* Image files: how they were compressed, their size in bytes, their faults.
Images ==
    [compress : CompressTypes, size : 0..MaxSize, faults : SUBSET ImageFaults]

\* board.image_max_size, board.image_format and the configured public key.
Cfgs ==
    [image_max_size : 1..MaxSize,
     image_format : {"fit", "zimage"},
     vboot_public_key : {None, <<"k">>}]

CheckResult(exc, tools) == [exc |-> exc, tools |-> tools]

\* Tools invoked up to and including the signature step.
ToolsToSignature(cfg) ==
    IF cfg.vboot_public_key # None
    THEN <<"vbutil_kernel --verify", "vbutil_kernel --signpubkey">>
    ELSE <<"vbutil_kernel --verify">>

\* Variant: the size limit is exclusive.
TooBigInclusive(image, cfg) == image.size >= cfg.image_max_size

\* Line 130.
TooBig(image, cfg) == image.size > cfg.image_max_size

\* Lines 120-183: the exception check raises ("" for none) and the external
\* tools invoked before it.
check(image, cfg) ==
    IF TooBig(image, cfg)
    THEN CheckResult("SizeTooBigError", <<>>)
    ELSE IF "verify" \in image.faults
    THEN CheckResult("NotADepthchargeImageError", <<"vbutil_kernel --verify">>)
    ELSE IF cfg.vboot_public_key # None /\ "signature" \in image.faults
    THEN CheckResult("VbootSignatureError", ToolsToSignature(cfg))
    ELSE IF cfg.image_format # "fit"
    THEN CheckResult("", ToolsToSignature(cfg) \o <<"vbutil_kernel --get-vmlinuz">>)
    ELSE IF "format" \in image.faults
    THEN CheckResult("ImageFormatError",
             ToolsToSignature(cfg) \o <<"vbutil_kernel --get-vmlinuz", "fdtget">>)
    ELSE IF "dtb" \in image.faults
    THEN CheckResult("MissingDTBError",
             ToolsToSignature(cfg) \o <<"vbutil_kernel --get-vmlinuz", "fdtget">>)
    ELSE CheckResult("",
             ToolsToSignature(cfg) \o <<"vbutil_kernel --get-vmlinuz", "fdtget">>)

CheckInit ==
    /\ cimage \in Images
    /\ ccfg \in Cfgs
    /\ cresult = CheckResult("", <<>>)
    /\ cpc = "start"

\* depthchargectl check IMAGE
Check ==
    /\ cpc = "start"
    /\ cresult' = check(cimage, ccfg)
    /\ cpc' = "done"
    /\ UNCHANGED <<cimage, ccfg>>

CheckIdle ==
    /\ cimage = [compress |-> "none", size |-> 0, faults |-> {}]
    /\ ccfg = [image_max_size |-> 1, image_format |-> "fit", vboot_public_key |-> None]
    /\ cresult = CheckResult("", <<>>)
    /\ cpc = "idle"

\* ---------------------------------------------------------------------
\* depthchargectl build: _build.py
\* ---------------------------------------------------------------------
VARIABLES
    bcompress, \* self.compress
    bcfg,      \* board limits and configured key
    catchAs,   \* how "except OSError" and err.errno see a CommandExit
    bidx,      \* position of the for loop in self.compress
    outtmp,    \* the temporary file: <<>> when absent, else <<image>>
    output,    \* the output file: <<>> when absent, else <<image>>
    output0,   \* the output file before the build
    bresults,  \* what check raised on each attempt so far
    buildpc,       \* "loop", "copy", "done" or "error"
    berror     \* the exception that left build

buildVars ==
    <<bcompress, bcfg, catchAs, bidx, outtmp, output, output0, bresults, buildpc, berror>>

\* An image left by an earlier build.
OldImage == [compress |-> "none", size |-> 0, faults |-> {}]

\* self.compress: one or more types, repeats allowed (lines 245-268).
CompressLists ==
    UNION { [1..k -> CompressTypes] : k \in 1..Cardinality(CompressTypes) }

\* CommandExit is not defined in these files: it is no OSError, or an OSError
\* whose errno is not 3, or an OSError whose errno is 3.
CatchChoices == {"not_oserror", "errno_other", "errno3"}

\* Variant: the loop is left as if every check had passed.
on_check_break(exc, catch, compress, compresslist) == "break"

\* Lines 346-369: what the try statement does with the outcome of check.
on_check(exc, catch, compress, compresslist) ==
    IF exc = "" THEN "break"
    ELSE IF catch = "not_oserror" THEN exc
    ELSE IF catch = "errno_other" THEN "Failed while creating depthcharge image."
    ELSE IF compress # compresslist[Len(compresslist)] THEN "continue"
    ELSE "Couldn't build a small enough image for this machine."

BuildInit ==
    /\ bcompress \in CompressLists
    /\ bcfg \in Cfgs
    /\ catchAs \in CatchChoices
    /\ bidx = 1
    /\ outtmp = <<>>
    /\ output \in {<<>>, <<OldImage>>}
    /\ output0 = output
    /\ bresults = <<>>
    /\ buildpc = "loop"
    /\ berror = ""

\* Lines 331-374: one pass of the for loop, with mkdepthcharge writing some
\* image to outtmp, or the else clause when the list is used up.
BuildAttempt ==
    /\ buildpc = "loop"
    /\ IF bidx > Len(bcompress)
       THEN /\ buildpc' = "error"
            /\ berror' = "Failed to create a valid depthcharge image."
            /\ UNCHANGED <<bidx, outtmp, bresults>>
       ELSE \E image \in Images :
            /\ image.compress = bcompress[bidx]
            /\ outtmp' = <<image>>
            /\ LET exc == check(image, bcfg).exc
                   todo == on_check(exc, catchAs, bcompress[bidx], bcompress)
               IN /\ bresults' = Append(bresults, exc)
                  /\ IF todo = "break"
                     THEN buildpc' = "copy" /\ UNCHANGED <<bidx, berror>>
                     ELSE IF todo = "continue"
                     THEN bidx' = bidx + 1 /\ UNCHANGED <<buildpc, berror>>
                     ELSE buildpc' = "error" /\ berror' = todo /\ UNCHANGED bidx
    /\ UNCHANGED <<bcompress, bcfg, catchAs, output, output0>>

\* Lines 377-378: copy the temporary file to the output and remove it.
CopyOutput ==
    /\ buildpc = "copy"
    /\ output' = outtmp
    /\ outtmp' = <<>>
    /\ buildpc' = "done"
    /\ UNCHANGED <<bcompress, bcfg, catchAs, bidx, output0, bresults, berror>>

BuildIdle ==
    /\ bcompress = <<>>
    /\ bcfg = [image_max_size |-> 1, image_format |-> "fit", vboot_public_key |-> None]
    /\ catchAs = "not_oserror"
    /\ bidx = 0
    /\ outtmp = <<>>
    /\ output = <<>>
    /\ output0 = <<>>
    /\ bresults = <<>>
    /\ buildpc = "idle"
    /\ berror = ""

vars == <<boardVars, diskVars, partVars, kernVars, checkVars, buildVars>>

BoardIdle ==
    /\ sections = <<>>
    /\ cfgBoard = None
    /\ argCodename = None
    /\ hwid = None
    /\ compatibles = <<>>
    /\ bpc = "idle"
    /\ bresult = NotCalled

DisksIdle ==
    /\ registry = <<>>
    /\ devNodes = {}
    /\ args = {}
    /\ parents = <<>>
    /\ disks = {}
    /\ phys_disks = {}
    /\ dpc = "idle"
    /\ dret = {}
    /\ ncalls = 0
    /\ prevArgs = {}
    /\ prevRet = {}

PartIdle ==
    /\ pdisk = <<>>
    /\ ppartno = NoPartNo
    /\ pname = <<>>
    /\ ppc = "idle"
    /\ pparts = Parts(None, None)

\* Board identification on every configuration and system of the bounds.
SpecBoardInit == BoardInit /\ DisksIdle /\ PartIdle /\ KernIdle /\ CheckIdle /\ BuildIdle
SpecBoardNext == Board /\ UNCHANGED <<diskVars, partVars, kernVars, checkVars, buildVars>>
SpecBoard == SpecBoardInit /\ [][SpecBoardNext]_vars

\* find_disks on every registry of the bounds.
SpecDisksInit == DisksInit /\ BoardIdle /\ PartIdle /\ KernIdle /\ CheckIdle /\ BuildIdle
SpecDisksNext ==
    \/ (\E as \in ArgSets : FindDisks(as)) /\ UNCHANGED <<boardVars, partVars, kernVars, checkVars, buildVars>>
    \/ WalkStep /\ UNCHANGED <<boardVars, partVars, kernVars, checkVars, buildVars>>
    \/ WalkEmpty /\ UNCHANGED <<boardVars, partVars, kernVars, checkVars, buildVars>>
    \/ ReturnDisks /\ UNCHANGED <<boardVars, partVars, kernVars, checkVars, buildVars>>
    \/ (\E as \in ArgSets : FindDisksAgain(as)) /\ UNCHANGED <<boardVars, partVars, kernVars, checkVars, buildVars>>
SpecDisks == SpecDisksInit /\ [][SpecDisksNext]_vars

\* The same, with the walk scheduled whenever it can take a step.
SpecDisksFair == SpecDisks /\ WF_vars(SpecDisksNext)

\* Building a partition name and reading its parts back.
SpecPartInit == PartInit /\ BoardIdle /\ DisksIdle /\ KernIdle /\ CheckIdle /\ BuildIdle
SpecPartNext ==
    \/ FromParts /\ UNCHANGED <<boardVars, diskVars, kernVars, checkVars, buildVars>>
    \/ Devparts /\ UNCHANGED <<boardVars, diskVars, kernVars, checkVars, buildVars>>
SpecPart == SpecPartInit /\ [][SpecPartNext]_vars

\* depthcharge_partitions over several partitions.
SpecKernNext ==
    \/ FindKernelParts /\ UNCHANGED <<boardVars, diskVars, partVars, checkVars, buildVars>>
    \/ ReadAttribute /\ UNCHANGED <<boardVars, diskVars, partVars, checkVars, buildVars>>
    \/ ReturnKernelParts /\ UNCHANGED <<boardVars, diskVars, partVars, checkVars, buildVars>>
SpecKernInit == KernInit /\ BoardIdle /\ DisksIdle /\ PartIdle /\ CheckIdle /\ BuildIdle
SpecKern == SpecKernInit /\ [][SpecKernNext]_vars

\* depthcharge_partitions over one partition and every attribute value.
SpecAttrInit == AttrInit /\ BoardIdle /\ DisksIdle /\ PartIdle /\ CheckIdle /\ BuildIdle
SpecAttr == SpecAttrInit /\ [][SpecKernNext]_vars

\* depthchargectl check on one image.
SpecCheckNext == Check /\ UNCHANGED <<boardVars, diskVars, partVars, kernVars, buildVars>>
SpecCheckInit == CheckInit /\ BoardIdle /\ DisksIdle /\ PartIdle /\ KernIdle /\ BuildIdle
SpecCheck == SpecCheckInit /\ [][SpecCheckNext]_vars

\* depthchargectl build.
SpecBuildNext ==
    \/ BuildAttempt /\ UNCHANGED <<boardVars, diskVars, partVars, kernVars, checkVars>>
    \/ CopyOutput /\ UNCHANGED <<boardVars, diskVars, partVars, kernVars, checkVars>>
SpecBuildInit == BuildInit /\ BoardIdle /\ DisksIdle /\ PartIdle /\ KernIdle /\ CheckIdle
SpecBuild == SpecBuildInit /\ [][SpecBuildNext]_vars

\* ---------------------------------------------------------------------
\* Properties of board identification
\* ---------------------------------------------------------------------

\* The codename board() looks up: the argument, else the configured value.
ExplicitCodename == IF argCodename # None THEN argCodename ELSE cfgBoard

\* The configured profiles, in iteration order.
Profiles == boards(sections)

HasProfile(c) == \E i \in 1..Len(sections) : sections[i].codename = c

\* Last section declaring codename c: the one the profile table keeps.
ProfileOf(c) ==
    sections[CHOOSE i \in 1..Len(sections) :
                /\ sections[i].codename = c
                /\ \A j \in (i + 1)..Len(sections) : sections[j].codename # c]

IsLiteral(p) == \A i \in 1..Len(p) : p[i] \notin {"(", "$", "^", "."}

IsPrefix(p, s) == Len(p) <= Len(s) /\ SubSeq(s, 1, Len(p)) = p

\* Pattern pat matches hardware ID hw at the start of the string.
PrefixMatches(pat, hw) ==
    /\ pat # None
    /\ hw # None
    /\ \/ IsLiteral(pat) /\ IsPrefix(pat, hw)
       \/ /\ Len(pat) >= 1
          /\ pat[Len(pat)] = "$"
          /\ IsLiteral(SubSeq(pat, 1, Len(pat) - 1))
          /\ SubSeq(pat, 1, Len(pat) - 1) = hw

HwidMatchAt(i) == PrefixMatches(Profiles[i][2].hwid_match, hwid)

AnyHwidMatch == \E i \in 1..Len(Profiles) : HwidMatchAt(i)

FirstHwidMatch ==
    CHOOSE i \in 1..Len(Profiles) :
        HwidMatchAt(i) /\ \A j \in 1..(i - 1) : ~HwidMatchAt(j)

\* Positions (from 1) of string c in the system's compatible list.
CompatPositions(c) == { k \in 1..Len(compatibles) : compatibles[k] = c }

CompatFoundAt(i) == CompatPositions(Profiles[i][2].dt_compatible) # {}

\* Smallest position of profile i's dt-compatible string.
CompatRank(i) ==
    CHOOSE k \in CompatPositions(Profiles[i][2].dt_compatible) :
        \A m \in CompatPositions(Profiles[i][2].dt_compatible) : k <= m

AnyCompatFound == \E i \in 1..Len(Profiles) : CompatFoundAt(i)

BestCompat ==
    CHOOSE i \in 1..Len(Profiles) :
        /\ CompatFoundAt(i)
        /\ \A j \in 1..Len(Profiles) : CompatFoundAt(j) => CompatRank(i) <= CompatRank(j)
        /\ \A j \in 1..(i - 1) : CompatFoundAt(j) => CompatRank(j) > CompatRank(i)

\* C1: an explicit codename that no configured profile carries always ends
\* in the unknown-board error, whatever the hardware ID and the device-tree
\* compatible list are; auto-detection is never consulted.
C1_UnknownCodenameFails ==
    (bpc = "done" /\ ExplicitCodename # None /\ ~HasProfile(ExplicitCodename))
        => bresult = UnknownBoard

\* Witness C1: the unknown-board error was raised although a profile matches
\* the hardware ID and another one the compatible list.
C1_Witness ==
    /\ bpc = "done"
    /\ ExplicitCodename # None
    /\ ~HasProfile(ExplicitCodename)
    /\ AnyHwidMatch
    /\ AnyCompatFound
    /\ bresult = UnknownBoard

\* C2: an explicit codename (argument, or the configured "board" value when
\* there is no argument) that a configured profile carries returns the
\* profile of that codename, whatever the hardware ID and compatible list.
C2_KnownCodenameReturned ==
    (bpc = "done" /\ ExplicitCodename # None /\ HasProfile(ExplicitCodename))
        => /\ bresult.status = "returned"
           /\ bresult.profile.codename = ExplicitCodename
           /\ bresult.profile = ProfileOf(ExplicitCodename)

\* Witness C2: the codename came from the configuration, and the hardware ID
\* matches the pattern of a profile other than the one returned.
C2_Witness ==
    /\ bpc = "done"
    /\ argCodename = None
    /\ cfgBoard # None
    /\ HasProfile(cfgBoard)
    /\ AnyHwidMatch
    /\ Profiles[FirstHwidMatch][1] # cfgBoard
    /\ bresult.status = "returned"
    /\ bresult.profile.codename = cfgBoard

\* C3: with no codename configured, when some profile's hardware-ID pattern
\* matches the hardware ID at its start, the first such profile in iteration
\* order is returned, whatever the compatible list is; profiles whose pattern
\* is absent or does not compile are passed over.
C3_FirstHwidMatchWins ==
    (bpc = "done" /\ ExplicitCodename = None /\ AnyHwidMatch)
        => bresult = Returned(Profiles[FirstHwidMatch][2])

\* Witness C3: the returned profile is the second one, after a profile with
\* an absent or non-compiling pattern; its pattern matches only a proper
\* prefix of the hardware ID, and the compatible list names the first profile.
C3_Witness ==
    /\ bpc = "done"
    /\ ExplicitCodename = None
    /\ Len(Profiles) = 2
    /\ Profiles[1][2].hwid_match \in {None, <<"(">>}
    /\ CompatFoundAt(1)
    /\ HwidMatchAt(2)
    /\ Len(Profiles[2][2].hwid_match) < Len(hwid)
    /\ bresult = Returned(Profiles[2][2])

\* C4: with no codename configured and no hardware-ID match, when some
\* profile's dt-compatible string occurs in the compatible list, the profile
\* whose string occurs earliest is returned, and among profiles sharing that
\* position the first in iteration order.
C4_BestCompatWins ==
    (bpc = "done" /\ ExplicitCodename = None /\ ~AnyHwidMatch /\ AnyCompatFound)
        => bresult = Returned(Profiles[BestCompat][2])

\* Witness C4 (preference): the second profile is returned because its
\* string comes earlier in the compatible list than the first profile's.
C4_Witness ==
    /\ bpc = "done"
    /\ ExplicitCodename = None
    /\ ~AnyHwidMatch
    /\ Len(Profiles) = 2
    /\ CompatFoundAt(1)
    /\ CompatFoundAt(2)
    /\ CompatRank(2) < CompatRank(1)
    /\ bresult = Returned(Profiles[2][2])

\* Two profiles share the smallest position and the first one is returned.
C4_TieWitness ==
    /\ bpc = "done"
    /\ ExplicitCodename = None
    /\ ~AnyHwidMatch
    /\ Len(Profiles) = 2
    /\ CompatFoundAt(1)
    /\ CompatFoundAt(2)
    /\ CompatRank(1) = CompatRank(2)
    /\ Profiles[1][2] # Profiles[2][2]
    /\ bresult = Returned(Profiles[1][2])

\* C5: with no codename configured, no hardware-ID match and no profile
\* whose dt-compatible string occurs in the compatible list, identification
\* fails with the board-not-detected error.
C5_NothingDetected ==
    (bpc = "done" /\ ExplicitCodename = None /\ ~AnyHwidMatch /\ ~AnyCompatFound)
        => bresult = BoardNotDetected

\* Witness C5: profiles exist, one without a dt-compatible string and one
\* whose string is not in the non-empty compatible list.
C5_Witness ==
    /\ bpc = "done"
    /\ ExplicitCodename = None
    /\ ~AnyHwidMatch
    /\ compatibles # <<>>
    /\ \E i \in 1..Len(Profiles) : Profiles[i][2].dt_compatible = None
    /\ \E i \in 1..Len(Profiles) : Profiles[i][2].dt_compatible # None
    /\ bresult = BoardNotDetected

\* The profile list is empty and identification fails.
C5_EmptyWitness ==
    /\ bpc = "done"
    /\ ExplicitCodename = None
    /\ Profiles = <<>>
    /\ bresult = BoardNotDetected

\* ---------------------------------------------------------------------
\* Properties of find_disks
\* ---------------------------------------------------------------------

\* The whole disk a device lies on: the disk of a partition, else itself.
WholeDiskOf(d) == IF registry[d].sysfs \in Devs THEN registry[d].sysfs ELSE d

\* C6: the parent walk terminates for every parents map and every starting
\* set: a call that entered the loop leaves it.
C6_WalkTerminates == (dpc = "loop") ~> (dpc = "filter")

\* C7: resolving one valid block device that has no entry in the parents
\* map returns exactly that device.
C7_NoParentsIsItsOwnDisk ==
    \A d \in Devs :
        (dpc = "done" /\ args = {d} /\ d \in devNodes /\ d \notin DOMAIN parents)
            => dret = {d}

\* C8: for a device-mapper device B whose slaves directory lists A,
\* resolving {B} returns the whole disk A lies on and not B.
C8_WalkReachesBackingDisk ==
    \A a, b \in Devs :
        ( /\ dpc = "done"
          /\ args = {b}
          /\ devNodes = Devs
          /\ registry[b].dm
          /\ a \in registry[b].slaves
          /\ registry[a].slaves = {}
          /\ registry[a].sysfs # Elsewhere )
            => (WholeDiskOf(a) \in dret /\ b \notin dret)

\* C9: a call without references returns the same set as a call that names
\* every block device of the registry.
C9_NoRefsEqualsAllDevices ==
    (dpc = "done" /\ ncalls = 2 /\ prevArgs = {} /\ args = Devs) => dret = prevRet

\* Witness C9: both calls were made on a registry with a device that has no
\* key in the parents map and a key that is no device, and returned a disk.
C9_Witness ==
    /\ dpc = "done"
    /\ ncalls = 2
    /\ prevArgs = {}
    /\ args = Devs
    /\ \E d \in Devs : d \notin DOMAIN parents
    /\ \E k \in DOMAIN parents : k \notin Devs
    /\ dret # {}
    /\ dret = prevRet

\* ---------------------------------------------------------------------
\* Properties of Partition
\* ---------------------------------------------------------------------

\* C10: for a disk name ending in a digit and a partition number,
\* from_parts yields disk + "p" + number, and .disk and .partno read from
\* that name are the disk and the number again, also for disk names with a
\* marker substring such as loop0 or dm-0.
C10_DigitDiskRoundTrip ==
    (ppc = "read" /\ EndsWithDigit(pdisk) /\ ppartno # NoPartNo)
        => /\ pname = pdisk \o <<"p">> \o FormatInt(ppartno)
           /\ pparts = Parts(pdisk, FormatInt(ppartno))

\* The name is one of the whole-disk shapes or carries a marker substring
\* or a digit-"p"-digit sequence: the shapes devparts decides before it
\* looks for trailing digits.
DecidedBeforeDigits(name) ==
    \/ \E m \in Markers : Contains(name, m)
    \/ IsMmcDisk(name)
    \/ IsNvmeDisk(name)
    \/ HasDigitPDigit(name)

\* C11 as stated: for every disk name not ending in a digit and every
\* positive partition number, from_parts yields disk + number, and .disk
\* and .partno read from that name are the disk and the number again.
C11_Original ==
    (ppc = "read" /\ ~EndsWithDigit(pdisk) /\ ppartno # NoPartNo)
        => /\ pname = pdisk \o FormatInt(ppartno)
           /\ pparts = Parts(pdisk, FormatInt(ppartno))

\* C11 as amended: the same, for the disk names whose produced name
\* carries no marker substring, is not of a whole-disk shape
\* (mmcblk<digit>, nvme<digit>n<digit>) and has no digit-"p"-digit sequence.
C11_PlainDiskRoundTrip ==
    ( /\ ppc = "read"
      /\ ~EndsWithDigit(pdisk)
      /\ ppartno # NoPartNo
      /\ ~DecidedBeforeDigits(pdisk \o FormatInt(ppartno)) )
        => /\ pname = pdisk \o FormatInt(ppartno)
           /\ pparts = Parts(pdisk, FormatInt(ppartno))

\* Witness C11: a two-digit partition number on a disk name ending in a
\* letter was split off again.
C11_Witness ==
    /\ ppc = "read"
    /\ ~EndsWithDigit(pdisk)
    /\ ppartno >= 10
    /\ ~DecidedBeforeDigits(pdisk \o FormatInt(ppartno))
    /\ pparts = Parts(pdisk, FormatInt(ppartno))

\* C12: devparts raises for no device name, and a name made only of digits
\* yields the whole name with no partition number.
C12_DevpartsNeverRaises ==
    ppc = "read"
        => /\ pparts.raised = ""
           /\ (\A i \in 1..Len(pname) : IsNumeric(pname[i])) => pparts = Parts(pname, None)

\* ---------------------------------------------------------------------
\* Properties of depthcharge_partitions
\* ---------------------------------------------------------------------

\* The raw attribute integer of found partition i.
RawAttr(i) == HexValue(kshow[i].stdout)

\* C13: every raw attribute value decodes to priority = raw mod 16,
\* tries = (raw div 16) mod 16, successful = (raw div 256) mod 2; the fields
\* stay within 0..15 and 0..1, and 0xF1 gives (1, 15, 0), 0x25 gives (5, 2, 0).
C13_DecodeFields ==
    kpc = "done" =>
        \A i \in 1..Len(koutput) :
            /\ koutput[i][2] = RawAttr(i) % 16
            /\ koutput[i][3] = (RawAttr(i) \div 16) % 16
            /\ koutput[i][4] = (RawAttr(i) \div 256) % 2
            /\ koutput[i][2] \in 0..15
            /\ koutput[i][3] \in 0..15
            /\ kshow[i].stdout = <<"f", "1">> =>
                   <<koutput[i][2], koutput[i][3], koutput[i][4]>> = <<1, 15, 0>>
            /\ kshow[i].stdout = <<"2", "5">> =>
                   <<koutput[i][2], koutput[i][3], koutput[i][4]>> = <<5, 2, 0>>

\* Witness C13: a value with bits above bit 8 set was decoded.
C13_Witness ==
    /\ kpc = "done"
    /\ Len(koutput) = 1
    /\ RawAttr(1) >= 1024
    /\ koutput[1][3] = 15
    /\ koutput[1][4] = 1

\* C14: a partition whose attribute read fails is left out of the result,
\* and the entries of all other partitions are returned in search order.
C14_FailedReadSkipped ==
    kpc \in {"done", "raised"} =>
        /\ kpc = "done"
        /\ Len(koutput) = Cardinality({ i \in 1..Len(kfound) : ~ReadFails(kshow[i]) })
        /\ \A i \in 1..Len(koutput) : \E j \in 1..Len(kfound) :
               ~ReadFails(kshow[j]) /\ koutput[i][1] = kfound[j]

\* C15: encoding the decoded fields back into the raw value they were
\* decoded from gives that raw value again.
C15_EncodeDecodeRoundTrip ==
    kpc = "done" =>
        \A i \in 1..Len(koutput) :
            encode(RawAttr(i), koutput[i][2], koutput[i][3], koutput[i][4]) = RawAttr(i)

\* Witness C15: the round trip was made on a value with reserved bits and
\* the successful flag set.
C15_Witness ==
    /\ kpc = "done"
    /\ Len(koutput) = 1
    /\ RawAttr(1) >= 512
    /\ koutput[1][4] = 1
    /\ encode(RawAttr(1), koutput[1][2], koutput[1][3], koutput[1][4]) = RawAttr(1)

\* ---------------------------------------------------------------------
\* Properties of depthchargectl build and check
\* ---------------------------------------------------------------------

\* C16: the output file is written only after the temporary image passed
\* check, and a build that ends in an error leaves the output file as it was.
C16_OutputOnlyAfterCheck ==
    /\ output # output0 =>
           /\ buildpc = "done"
           /\ output # <<>>
           /\ check(output[1], bcfg).exc = ""
    /\ buildpc = "error" => output = output0

\* Witness C16: an older output file was replaced by the image of a second
\* attempt.
C16_Witness ==
    /\ buildpc = "done"
    /\ output0 = <<OldImage>>
    /\ output # output0
    /\ Len(bresults) = 2

\* Witness C16: a build over an older output file ended with every type too big.
C16_ErrorWitness ==
    /\ buildpc = "error"
    /\ berror = "Couldn't build a small enough image for this machine."
    /\ output0 = <<OldImage>>
    /\ output = output0

\* C17: the types are attempted in list order; a too-big image of a type
\* that is not the last one is followed by the next type, the first image
\* that passes ends the loop, and a too-big image of the last type ends the
\* build with "Couldn't build a small enough image".
C17_CompressInListOrder ==
    /\ Len(bresults) <= Len(bcompress)
    /\ (outtmp # <<>> /\ bresults # <<>>) =>
           outtmp[1].compress = bcompress[Len(bresults)]
    /\ (bresults # <<>> /\ bresults[Len(bresults)] = "") => buildpc \in {"copy", "done"}
    /\ (bresults # <<>> /\ bresults[Len(bresults)] = "SizeTooBigError") =>
           IF Len(bresults) < Len(bcompress)
           THEN buildpc = "loop" /\ bidx = Len(bresults) + 1
           ELSE /\ buildpc = "error"
                /\ berror = "Couldn't build a small enough image for this machine."

\* C17 where every CommandExit is an OSError with errno 3.
C17_WithErrno3 == catchAs = "errno3" => C17_CompressInListOrder

\* C18: check passes only images strictly smaller than the size limit; an
\* image of the limit's size or more fails with SizeTooBigError, before any
\* external tool is invoked.
C18_StrictSizeLimit ==
    cpc = "done" =>
        /\ cresult.exc = "" => cimage.size < ccfg.image_max_size
        /\ cimage.size >= ccfg.image_max_size =>
               cresult = CheckResult("SizeTooBigError", <<>>)
====
